---- MODULE Spec2Model ----
(***************************************************************************)
(* A model of the shell's command interpretation and execution engine:     *)
(* the tokenizer (src/src/parser.rs) and the builtins, alias expansion and *)
(* pipeline executor (src/src/commands.rs).                                *)
(*                                                                         *)
(* Text is modelled as a sequence of one-character strings, so that the    *)
(* tokenizer, the expansions and the alias quote stripping are computed    *)
(* character by character as the code computes them.                       *)
(*                                                                         *)
(* A session executes the lines of the startup file (execute_file_commands *)
(* of commands.rs) and then the lines the user types. The loop that calls  *)
(* handle_builtin_command and execute_single_command for a typed line is   *)
(* not among the sources; interactive_line models it as the specification  *)
(* describes it (builtins first, then execute_single_command with pipe     *)
(* splitting allowed).                                                     *)
(*                                                                         *)
(* Environment: the file system is fixed during a session (Dirs, Files),   *)
(* env::current_dir and the PREVIOUS_DIR lock never fail, the home         *)
(* directory is HOME, and a spawn succeeds exactly for the names in        *)
(* Programs. The exit status of a child is arbitrary.                      *)
(***************************************************************************)
EXTENDS Integers, Sequences, FiniteSets, TLC

VARIABLES
    cwd,              \* the process's working directory (env::current_dir)
    previous_dir,     \* PREVIOUS_DIR: None or Some(path)
    env,              \* the process environment: name -> value
    aliases,          \* the alias table: name -> replacement text
    mode,             \* "file" | "interactive" | "exited" | "panicked"
    pc,               \* "idle" | "spawn" | "wait": position in the executor
    input,            \* the trimmed line being executed
    words,            \* its words: parse_arguments(input)
    allow_pipes,      \* the allow_pipes flag the line was executed with
    commands,         \* the command vectors handed to the executor
    piped,            \* TRUE in execute_piped_commands' multi-stage loop
    idx,              \* the loop index i of the spawn loop (1-based)
    children,         \* the spawned children, in spawn order
    previous_stdout,  \* None or Some(k): the piped stdout of child k is held
    report,           \* what the current line printed, in order
    nlines,           \* number of lines read so far
    menu,             \* the lines this session's file and user may contain
    rl_history,       \* the line editor's history: its last two entries
    edit_run,         \* None, or Some(run): what the editor did for this line
    token_out,        \* None, or Some(text): the result of expanding `input`
    cdlog,            \* history: the last cd invocations
    lastSet,          \* history: name -> value of the last `set` of that name
    pathTouched,      \* history: `path` changed PATH after the last `set PATH`
    spawnFailed       \* history: a spawn has failed earlier in the session

vars == <<cwd, previous_dir, env, aliases, mode, pc, input, words, allow_pipes,
          commands, piped, idx, children, previous_stdout, report, nlines,
          menu, rl_history, edit_run, token_out, cdlog, lastSet, pathTouched,
          spawnFailed>>

session == <<cwd, previous_dir, env, aliases>>
job == <<commands, piped, idx, children, previous_stdout>>
history == <<cdlog, lastSet, pathTouched, token_out>>

\* Option<T>: None, or Some(x)
None == <<>>
Some(x) == <<x>>

-----------------------------------------------------------------------------
(* Bounds *)

\* number of lines read in one session (startup file and interactive)
MaxLines == 3
\* number of cd invocations kept in the history variable cdlog
MaxCdLog == 3
\* length of the texts given to the tokenizer and the expansions on their own
MaxTextLen == 4

-----------------------------------------------------------------------------
(* Characters and text *)

DQ == "\""
SQ == "'"
SP == " "
TAB == "\t"

Letters == {"a","b","c","d","e","f","g","h","i","j","k","l","m","n","o","p","q",
            "r","s","t","u","v","w","x","y","z","A","H","P","T","X","Y"}
Digits == {"0","1","2"}

\* char::is_alphabetic, char::is_alphanumeric (on the model's alphabet)
is_alphabetic(c) == c \in Letters
is_alphanumeric(c) == c \in Letters \cup Digits

\* &s[from..]
From(s, from) == IF from > Len(s) THEN <<>> ELSE SubSeq(s, from, Len(s))

\* str::starts_with
starts_with(s, p) == Len(s) >= Len(p) /\ SubSeq(s, 1, Len(p)) = p

\* str::contains(char)
contains(s, c) == \E i \in 1..Len(s) : s[i] = c

\* str::find(char): the first position (1-based); 0 when absent
find(s, c) == IF contains(s, c)
              THEN CHOOSE i \in 1..Len(s) : s[i] = c /\ \A j \in 1..(i-1) : s[j] # c
              ELSE 0

IsSpace(c) == c = SP \/ c = TAB

\* str::trim: whitespace removed at both ends
RECURSIVE trim_start(_)
trim_start(s) == IF s # <<>> /\ IsSpace(Head(s)) THEN trim_start(Tail(s)) ELSE s
RECURSIVE trim_end(_)
trim_end(s) == IF s # <<>> /\ IsSpace(s[Len(s)])
               THEN trim_end(SubSeq(s, 1, Len(s) - 1)) ELSE s
trim(s) == trim_end(trim_start(s))

\* str::trim_matches(c): every leading and every trailing c removed
RECURSIVE trim_start_matches(_, _)
trim_start_matches(s, c) ==
    IF s # <<>> /\ Head(s) = c THEN trim_start_matches(Tail(s), c) ELSE s
RECURSIVE trim_end_matches(_, _)
trim_end_matches(s, c) ==
    IF s # <<>> /\ s[Len(s)] = c
    THEN trim_end_matches(SubSeq(s, 1, Len(s) - 1), c) ELSE s
trim_matches(s, c) == trim_end_matches(trim_start_matches(s, c), c)

\* str::split(c): the pieces between the occurrences of c (always >= 1 piece)
RECURSIVE split(_, _)
split(s, c) ==
    LET p == find(s, c)
    IN  IF p = 0 THEN <<s>>
        ELSE <<SubSeq(s, 1, p - 1)>> \o split(From(s, p + 1), c)

\* slice.join(" ")
RECURSIVE join(_)
join(ws) == IF ws = <<>> THEN <<>>
            ELSE IF Len(ws) = 1 THEN ws[1]
            ELSE ws[1] \o <<SP>> \o join(Tail(ws))

-----------------------------------------------------------------------------
(* The file system and the home directory the shell runs in *)

ROOT == <<"/">>
HOME == <<"/","h">>
DirA == <<"/","a">>
DirB == <<"/","b">>
DirHD == <<"/","h","/","d">>
FileF == <<"/","f">>
Missing == <<"/","n">>

\* existing directories and existing regular files (absolute, canonical)
Dirs == {ROOT, HOME, DirA, DirB, DirHD}
Files == {FileF}

\* dirs::home_dir()
home_dir == HOME

\* PathBuf::join: an absolute right-hand side replaces the base; otherwise a
\* separator is added unless the base already ends with one
path_join(base, rest) ==
    IF starts_with(rest, <<"/">>) THEN rest
    ELSE IF base # <<>> /\ base[Len(base)] = "/" THEN base \o rest
    ELSE base \o <<"/">> \o rest

\* the canonical absolute path a path names, seen from directory d
Canon(p) == IF Len(p) > 1 THEN trim_end_matches(p, "/") ELSE p
Resolve(d, p) == IF p = <<>> THEN <<>> ELSE Canon(path_join(d, p))

is_dir(d, p) == Resolve(d, p) \in Dirs
exists(d, p) == Resolve(d, p) \in Dirs \cup Files

-----------------------------------------------------------------------------
(* src/src/parser.rs *)

\* env::var(name).ok()
env_var(name) == IF name \in DOMAIN env THEN Some(env[name]) ELSE None

expand_tilde(path) ==
    IF path = <<"~">> THEN home_dir
    ELSE IF starts_with(path, <<"~","/">>) THEN path_join(home_dir, From(path, 3))
    ELSE path

\* the inner loop of the ${NAME} form: position of the closing brace, 0 if none
brace_close(s, i) == LET r == From(s, i) IN
                     IF find(r, "}") = 0 THEN 0 ELSE i + find(r, "}") - 1

\* (mutant) a digit ends the name
RECURSIVE name_end_at_digit(_, _)
name_end_at_digit(s, i) ==
    IF i <= Len(s) /\ (is_alphabetic(s[i]) \/ s[i] = "_")
    THEN name_end_at_digit(s, i + 1) ELSE i

\* the inner loop of the $NAME form: first position after the name
RECURSIVE name_end(_, _)
name_end(s, i) ==
    IF i <= Len(s) /\ (is_alphanumeric(s[i]) \/ s[i] = "_")
    THEN name_end(s, i + 1) ELSE i

RECURSIVE expand_scan(_, _, _)
expand_scan(s, i, result) ==
    IF i > Len(s) THEN result
    ELSE LET c == s[i] IN
      IF c = "$" THEN
        IF i + 1 <= Len(s) THEN
          LET next_char == s[i + 1] IN
          IF next_char = "{" THEN
            LET close == brace_close(s, i + 2) IN
            IF close # 0 THEN
              LET var_name == SubSeq(s, i + 2, close - 1)
                  value == env_var(var_name)
              IN  expand_scan(s, close + 1,
                     IF value # None THEN result \o value[1] ELSE result)
            ELSE result \o <<"$","{">> \o From(s, i + 2)
          ELSE IF is_alphabetic(next_char) \/ next_char = "_" THEN
            LET e == name_end(s, i + 1)
                var_name == SubSeq(s, i + 1, e - 1)
                value == env_var(var_name)
            IN  expand_scan(s, e,
                   IF value # None THEN result \o value[1] ELSE result)
          ELSE expand_scan(s, i + 1, Append(result, c))
        ELSE expand_scan(s, i + 1, Append(result, c))
      ELSE expand_scan(s, i + 1, Append(result, c))

\* (mutant) the result is scanned for variables once more
expand_variables_rescan(s) == expand_scan(expand_scan(s, 1, <<>>), 1, <<>>)

expand_variables(s) == expand_scan(s, 1, <<>>)

\* (mutant) the tilde is expanded before the variables
expand_token_tilde_first(current_arg) == expand_variables(expand_tilde(current_arg))

\* what a token boundary pushes
expand_token(current_arg) == expand_tilde(expand_variables(current_arg))

\* (mutant) either quote character closes a quoted region
closes_quote_either(c, quote_char) == c = DQ \/ c = SQ

\* `c if in_quotes && c == quote_char`
closes_quote(c, quote_char) == c = quote_char

\* "Skip multiple spaces": first position at or after i that is not blank
RECURSIVE skip_spaces(_, _)
skip_spaces(s, i) ==
    IF i <= Len(s) /\ IsSpace(s[i]) THEN skip_spaces(s, i + 1) ELSE i

RECURSIVE parse_scan(_, _, _, _, _, _)

\* (mutant) a closing quote pushes the quoted text as it is, unexpanded
parse_scan_quoted_literal(s, i, args, current_arg, in_quotes, quote_char) ==
    IF i > Len(s)
    THEN IF current_arg # <<>> THEN Append(args, expand_token(current_arg)) ELSE args
    ELSE LET c == s[i] IN
      IF (c = DQ \/ c = SQ) /\ ~in_quotes
        THEN parse_scan(s, i + 1, args, current_arg, TRUE, c)
      ELSE IF in_quotes /\ closes_quote(c, quote_char)
        THEN parse_scan(s, i + 1,
                 IF current_arg # <<>> THEN Append(args, current_arg) ELSE args,
                 <<>>, FALSE, quote_char)
      ELSE IF IsSpace(c) /\ ~in_quotes
        THEN parse_scan(s, skip_spaces(s, i + 1),
                 IF current_arg # <<>>
                 THEN Append(args, expand_token(current_arg)) ELSE args,
                 <<>>, in_quotes, quote_char)
      ELSE parse_scan(s, i + 1, args, Append(current_arg, c), in_quotes, quote_char)

parse_scan(s, i, args, current_arg, in_quotes, quote_char) ==
    IF i > Len(s)
    THEN IF current_arg # <<>> THEN Append(args, expand_token(current_arg)) ELSE args
    ELSE LET c == s[i] IN
      IF (c = DQ \/ c = SQ) /\ ~in_quotes
        THEN parse_scan(s, i + 1, args, current_arg, TRUE, c)
      ELSE IF in_quotes /\ closes_quote(c, quote_char)
        THEN parse_scan(s, i + 1, args, current_arg, FALSE, quote_char)
      ELSE IF IsSpace(c) /\ ~in_quotes
        THEN parse_scan(s, skip_spaces(s, i + 1),
                 IF current_arg # <<>>
                 THEN Append(args, expand_token(current_arg)) ELSE args,
                 <<>>, in_quotes, quote_char)
      ELSE parse_scan(s, i + 1, args, Append(current_arg, c), in_quotes, quote_char)

parse_arguments(s) == parse_scan(s, 1, <<>>, <<>>, FALSE, DQ)

-----------------------------------------------------------------------------
(* Words of the command language used by the checked sessions *)

w_cd == <<"c","d">>
w_set == <<"s","e","t">>
w_alias == <<"a","l","i","a","s">>
w_path == <<"p","a","t","h">>
w_exit == <<"e","x","i","t">>
w_dash == <<"-">>
w_ls == <<"l","s">>
w_ll == <<"l","l">>
w_cat == <<"c","a","t">>
w_nx == <<"n","x">>
w_X == <<"X">>
w_PATH == <<"P","A","T","H">>
w_edit == <<"e","d","i","t">>
w_EDITOR == <<"E","D","I","T","O","R">>
w_vim == <<"v","i","m">>

\* the programs Command::spawn finds; every other name fails to spawn
Programs == {w_ls, w_cat, w_vim}

-----------------------------------------------------------------------------
(* The effect of executing one line: the session state it leaves, what it  *)
(* printed, and what it hands to the executor.                             *)

NoEffect ==
    [cwd |-> cwd, previous_dir |-> previous_dir, env |-> env, aliases |-> aliases,
     report |-> <<>>,      \* messages printed, in order
     panic |-> FALSE,      \* the thread panicked
     err |-> FALSE,        \* the handler returned Err(_)
     edit |-> <<>>,        \* the editor run of `edit`, if the editor was asked
     stop |-> FALSE,       \* `exit`
     launch |-> <<>>,      \* command vectors handed to the executor
     piped |-> FALSE,      \* handed to the multi-stage loop
     cd |-> <<>>,          \* history: the cd invocation, if any
     set |-> <<>>,         \* history: the arguments of a `set` that assigns
     path |-> FALSE]       \* history: `path` changed PATH

Says(e, msg) == [e EXCEPT !.report = Append(@, msg)]

\* HashMap::insert / env::set_var on a name -> value map
insert(map, name, value) ==
    [n \in DOMAIN map \cup {name} |-> IF n = name THEN value ELSE map[n]]

\* env::set_var panics on an empty name and on a name containing '='
set_var_ok(name) == name # <<>> /\ ~contains(name, "=")

set_var(e, name, value) ==
    IF set_var_ok(name)
    THEN [e EXCEPT !.env = insert(@, name, value)]
    ELSE [e EXCEPT !.panic = TRUE]

\* (mutant) the value is cut one character early and keeps the '='
set_def_value_keeps_eq(env_def) == From(env_def, find(env_def, "="))

\* NAME=VALUE split at its first '='
set_def_name(env_def) == SubSeq(env_def, 1, find(env_def, "=") - 1)
set_def_value(env_def) == From(env_def, find(env_def, "=") + 1)

(* execute_single_command, "set" arm *)
set_arm(args) ==
    IF args = <<>> THEN Says(NoEffect, "set_list")
    ELSE IF Len(args) = 1 /\ contains(args[1], "=") THEN
        LET env_def == args[1]
            name == set_def_name(env_def)
            value == set_def_value(env_def)
        IN  [set_var(NoEffect, name, value) EXCEPT !.set = Some(args)]
    ELSE IF Len(args) = 2 THEN
        [set_var(NoEffect, args[1], args[2]) EXCEPT !.set = Some(args)]
    ELSE Says(NoEffect, "set_usage")

(* execute_single_command, "alias" arm: the table is read-only here *)
alias_arm(args) ==
    IF args = <<>> THEN Says(NoEffect, "alias_list")
    ELSE IF Len(args) = 1 /\ contains(args[1], "=")
         THEN Says(NoEffect, "alias_context")
    ELSE Says(NoEffect, "alias_usage")

(* execute_single_command, "cd" arm *)

\* the target directory: Some(path), or None for `cd -` with nothing recorded
cd_target(args) ==
    IF args = <<>> THEN Some(home_dir)
    ELSE IF args[1] = w_dash THEN previous_dir
    ELSE LET path == args[1] IN
        IF starts_with(path, <<"~">>) THEN
            IF path = <<"~">> THEN Some(home_dir)
            ELSE Some(path_join(home_dir, From(path, 3)))
        ELSE Some(path)

\* (mutant) the directory entered is recorded instead of the one left
cd_previous_target(current_dir, target_dir) == target_dir

\* (mutant) the first directory recorded is never replaced
cd_previous_first(current_dir, target_dir) ==
    IF previous_dir # None THEN previous_dir[1] ELSE current_dir

\* what a successful cd stores in PREVIOUS_DIR
cd_previous(current_dir, target_dir) == current_dir

\* (mutant) PREVIOUS_DIR is assigned before set_current_dir is tried
cd_failed_records(current_dir) ==
    [Says(NoEffect, "cd_error") EXCEPT !.previous_dir = Some(current_dir)]

\* the session a failed cd leaves: the error is printed, nothing is assigned
cd_failed(current_dir) == Says(NoEffect, "cd_error")

cd_arm(args) ==
    LET current_dir == cwd
        target == cd_target(args)
        failed == [arg |-> args, ok |-> FALSE, from |-> cwd, to |-> cwd]
    IN  IF target = None
        THEN [cd_failed(current_dir) EXCEPT !.cd = <<failed>>]
        ELSE LET target_dir == target[1] IN
          IF ~is_dir(cwd, target_dir)
          THEN [cd_failed(current_dir) EXCEPT !.cd = <<failed>>]
          ELSE LET done == [NoEffect EXCEPT
                              !.cwd = Resolve(cwd, target_dir),
                              !.previous_dir = Some(cd_previous(current_dir, target_dir)),
                              !.cd = <<[arg |-> args, ok |-> TRUE, from |-> cwd,
                                        to |-> Resolve(cwd, target_dir)]>>]
               IN  IF args # <<>> /\ args[1] = w_dash
                   THEN Says(done, "cd_print") ELSE done

(* alias expansion *)

\* (mutant) the result is looked up in the alias table once more
alias_expand_again(alias_value, args) ==
    LET once == parse_arguments(alias_value) \o args
    IN  IF once # <<>> /\ once[1] \in DOMAIN aliases
        THEN parse_arguments(aliases[once[1]]) \o Tail(once) ELSE once

\* single-command path: the replacement's tokens, then the original arguments
alias_expand(alias_value, args) == parse_arguments(alias_value) \o args

\* pipeline path: parsed.splice(0..1, alias_parts)
alias_splice(parsed) ==
    IF parsed # <<>> /\ parsed[1] \in DOMAIN aliases
    THEN parse_arguments(aliases[parsed[1]]) \o Tail(parsed)
    ELSE parsed

\* (mutant) a line with a quoted string is not cut
pipe_commands_unquoted(full_input) ==
    LET pipe_parts == split(full_input, "|")
    IN  IF contains(full_input, DQ) \/ contains(full_input, SQ)
        THEN <<alias_splice(parse_arguments(full_input))>>
        ELSE [k \in 1..Len(pipe_parts) |->
                 alias_splice(parse_arguments(trim(pipe_parts[k])))]

\* one command vector per '|'-separated piece of the raw line
pipe_commands(full_input) ==
    LET pipe_parts == split(full_input, "|")
    IN  [k \in 1..Len(pipe_parts) |-> alias_splice(parse_arguments(trim(pipe_parts[k])))]

\* execute_piped_commands' entry: nothing, one command, or the stage loop
execute_piped_commands(cmds) ==
    IF cmds = <<>> THEN NoEffect
    ELSE IF Len(cmds) = 1 THEN
        IF cmds[1] # <<>> THEN [NoEffect EXCEPT !.launch = cmds] ELSE NoEffect
    ELSE [NoEffect EXCEPT !.launch = cmds, !.piped = TRUE]

\* (mutant) an alias whose replacement begins with `cd` runs the builtin
default_arm_redispatch(command, args, allowPipes, full_input) ==
    LET expanded_command ==
            IF command \in DOMAIN aliases THEN aliases[command] ELSE command
    IN  IF allowPipes /\ contains(full_input, "|")
        THEN execute_piped_commands(pipe_commands(full_input))
        ELSE IF expanded_command # command THEN
            LET final_args == alias_expand(expanded_command, args) IN
            IF final_args = <<>> THEN [NoEffect EXCEPT !.panic = TRUE]
            ELSE IF final_args[1] = w_cd THEN cd_arm(Tail(final_args))
            ELSE [NoEffect EXCEPT !.launch = <<final_args>>]
        ELSE [NoEffect EXCEPT !.launch = <<<<command>> \o args>>]

(* execute_single_command, default arm *)
default_arm(command, args, allowPipes, full_input) ==
    LET expanded_command ==
            IF command \in DOMAIN aliases THEN aliases[command] ELSE command
    IN  IF allowPipes /\ contains(full_input, "|")
        THEN execute_piped_commands(pipe_commands(full_input))
        ELSE IF expanded_command # command THEN
            LET final_args == alias_expand(expanded_command, args) IN
            IF final_args = <<>> THEN [NoEffect EXCEPT !.panic = TRUE]
            ELSE [NoEffect EXCEPT !.launch = <<final_args>>]
        ELSE [NoEffect EXCEPT !.launch = <<<<command>> \o args>>]

\* (mutant) the test for '|' comes before the builtin arms
execute_single_command_pipe_first(command, args, allowPipes, full_input) ==
    IF allowPipes /\ contains(full_input, "|")
    THEN execute_piped_commands(pipe_commands(full_input))
    ELSE IF command = w_set THEN set_arm(args)
    ELSE IF command = w_alias THEN alias_arm(args)
    ELSE IF command = w_cd THEN cd_arm(args)
    ELSE default_arm(command, args, allowPipes, full_input)

execute_single_command(command, args, allowPipes, full_input) ==
    IF command = w_set THEN set_arm(args)
    ELSE IF command = w_alias THEN alias_arm(args)
    ELSE IF command = w_cd THEN cd_arm(args)
    ELSE default_arm(command, args, allowPipes, full_input)

(* the "alias" builtin of handle_builtin_command and execute_file_commands *)

\* the text stored for NAME=VALUE
alias_value_of(alias_def) ==
    trim_matches(From(alias_def, find(alias_def, "=") + 1), DQ)

alias_name_of(alias_def) == SubSeq(alias_def, 1, find(alias_def, "=") - 1)

\* (mutant) `alias NAME` without '=' removes the entry NAME
alias_builtin_unalias(args) ==
    IF args = <<>> THEN Says(NoEffect, "alias_list")
    ELSE IF Len(args) = 1 /\ contains(args[1], "=") THEN
        [NoEffect EXCEPT !.aliases =
            insert(@, alias_name_of(args[1]), alias_value_of(args[1]))]
    ELSE [Says(NoEffect, "alias_usage") EXCEPT !.aliases =
            [n \in DOMAIN aliases \ {args[1]} |-> aliases[n]]]

alias_builtin(args) ==
    IF args = <<>> THEN Says(NoEffect, "alias_list")
    ELSE IF Len(args) = 1 /\ contains(args[1], "=") THEN
        [NoEffect EXCEPT !.aliases =
            insert(@, alias_name_of(args[1]), alias_value_of(args[1]))]
    ELSE Says(NoEffect, "alias_usage")

(* the "edit" builtin of handle_builtin_command *)

\* env::var("EDITOR").unwrap_or_else(|_| "vim")
editor_name == IF env_var(w_EDITOR) # None THEN env_var(w_EDITOR)[1] ELSE w_vim

\* rl.history().into_iter().rev().nth(1): the second most recent entry
history_nth1(hist) == IF Len(hist) >= 2 THEN Some(hist[Len(hist) - 1]) ELSE None

\* `?` on an I/O error: the handler returns Err(_)
Fails(e) == [e EXCEPT !.err = TRUE]

\* the text std::fs::read_to_string finds in the temporary file
edited_text(cmd, run) == IF run.edited = None THEN cmd ELSE run.edited[1]

\* (mutant) the edited text is executed whatever the editor's exit status
edit_after_editor_always(cmd, run) ==
    LET edited_command == edited_text(cmd, run)
        edited_parts == parse_arguments(trim(edited_command))
    IN  IF run.outcome = "read_error" THEN Fails(NoEffect)
        ELSE IF edited_parts # <<>>
        THEN execute_single_command(edited_parts[1], Tail(edited_parts), TRUE,
                                    trim(edited_command))
        ELSE NoEffect

\* what `edit` does once the editor has exited
edit_after_editor(cmd, run) ==
    IF run.outcome = "exited_failure" THEN Says(NoEffect, "edit_warning")
    ELSE IF run.outcome = "read_error" THEN Fails(NoEffect)
    ELSE LET edited_command == edited_text(cmd, run)
             edited_parts == parse_arguments(trim(edited_command))
         IN  IF edited_parts # <<>>
             THEN execute_single_command(edited_parts[1], Tail(edited_parts), TRUE,
                                         trim(edited_command))
             ELSE NoEffect

\* run: what the file system and the editor do: outcome is "write_error",
\* "exited_failure", "read_error" or "exited_success"; edited is None when the
\* editor leaves the file as written, or Some(text)
edit_builtin(args, hist, run) ==
    LET last_command == IF args = <<>> THEN history_nth1(hist) ELSE Some(join(args))
    IN  IF last_command = None THEN Says(NoEffect, "edit_info")
        ELSE LET cmd == last_command[1]
                 logged == [outcome |-> run.outcome, text |-> edited_text(cmd, run)]
             IN  IF run.outcome = "write_error" THEN Fails(NoEffect)
                 ELSE IF ~(editor_name \in Programs) THEN Fails(NoEffect)
                 ELSE [edit_after_editor(cmd, run) EXCEPT !.edit = Some(logged)]

(* the "path" builtin of handle_builtin_command and execute_file_commands *)
path_builtin(args) ==
    IF args = <<>> THEN Says(NoEffect, "path_print")
    ELSE IF Len(args) = 1 THEN
        LET new_path == args[1]
            expanded_path == IF starts_with(new_path, <<"~">>)
                             THEN path_join(home_dir, From(new_path, 3))
                             ELSE new_path
        IN  IF ~exists(cwd, expanded_path) THEN Says(NoEffect, "path_missing")
            ELSE IF ~is_dir(cwd, expanded_path) THEN Says(NoEffect, "path_notdir")
            ELSE LET current_path == IF env_var(w_PATH) = None THEN <<>>
                                     ELSE env_var(w_PATH)[1]
                     new_full_path == IF current_path = <<>> THEN expanded_path
                                      ELSE expanded_path \o <<":">> \o current_path
                 IN  [Says(NoEffect, "path_added") EXCEPT
                         !.env = insert(@, w_PATH, new_full_path), !.path = TRUE]
    ELSE Says(NoEffect, "path_usage")

-----------------------------------------------------------------------------
(* The lines the checked sessions are made of *)

\* a line made of words separated by one blank
L(ws) == join(ws)

l_cd_a == L(<<w_cd, DirA>>)
l_ls == L(<<w_ls>>)
l_exit == L(<<w_exit>>)
l_blank == <<SP, SP>>
\* alias ll="ls -a"
l_alias_ll == L(<<w_alias, <<"l","l","=",DQ,"l","s"," ","-","a",DQ>>>>)
l_set_X_v == L(<<w_set, w_X, <<"v">>>>)
l_ll_h == L(<<w_ll, <<"-","h">>>>)

l_ls_quoted_pipe == L(<<w_ls, <<DQ,"a","|">> \o w_cat \o <<DQ>>>>)

CdLines ==
    { L(<<w_cd>>), L(<<w_cd, w_dash>>), l_cd_a, L(<<w_cd, DirB>>),
      L(<<w_cd, <<"d">>>>), L(<<w_cd, <<"~">>>>), L(<<w_cd, <<"~","/","d">>>>),
      L(<<w_cd, Missing>>), L(<<w_cd, FileF>>), L(<<w_cd, <<"~","x","d">>>>) }

SetLines ==
    { L(<<w_set>>), L(<<w_set, w_X>>), l_set_X_v,
      L(<<w_set, <<"X","=","w">>>>), L(<<w_set, <<"X","=","~">>>>),
      L(<<w_set, <<"X","=">>>>), L(<<w_set, <<"=","v">>>>),
      L(<<w_set, w_PATH, <<"v">>>>), L(<<w_set, <<"P","A","T","H","=">>>>) }

AliasLines ==
    { L(<<w_alias>>), L(<<w_alias, w_ll>>), l_alias_ll,
      \* alias ls="ls -a" (refers to itself)
      L(<<w_alias, <<"l","s","=",DQ,"l","s"," ","-","a",DQ>>>>),
      \* alias ll=cat (overwrites), alias cat=nx (an alias of an alias result)
      L(<<w_alias, <<"l","l","=","c","a","t">>>>),
      L(<<w_alias, <<"c","a","t","=","n","x">>>>),
      \* alias ll='""ls""' (two layers of double quotes reach the builtin)
      L(<<w_alias, <<"l","l","=",SQ,DQ,DQ,"l","s",DQ,DQ,SQ>>>>),
      \* alias ll='"ls"'
      L(<<w_alias, <<"l","l","=",SQ,DQ,"l","s",DQ,SQ>>>>),
      \* alias ll= (an empty replacement text)
      L(<<w_alias, <<"l","l","=">>>>),
      \* alias ll="cd /b" (the replacement begins with a builtin name)
      L(<<w_alias, <<"l","l","=",DQ>> \o w_cd \o <<SP>> \o DirB \o <<DQ>>>>),
      \* alias cd=ls (a builtin name as alias name)
      L(<<w_alias, <<"c","d","=","l","s">>>>) }

PathLines ==
    { L(<<w_path>>), L(<<w_path, DirA>>), L(<<w_path, Missing>>),
      L(<<w_path, FileF>>), L(<<w_path, <<"~","/","d">>>>),
      L(<<w_path, <<"~","x","d">>>>), L(<<w_path, DirA, DirB>>) }

VarLines == { L(<<<<"$","X">>>>), L(<<<<"$","{","X","}">>>>) }

RunLines ==
    { l_ls, l_ll_h, L(<<w_cat>>), L(<<w_nx>>),
      L(<<w_ls, <<"|">>, w_cat>>), L(<<w_ll, <<"|">>, w_cat>>),
      L(<<w_ls, <<"|">>>>), L(<<w_ls, <<"|">>, <<"|">>, w_cat>>),
      L(<<w_ls, <<"|">>, w_nx, <<"|">>, w_cat>>), L(<<w_nx, <<"|">>, w_ls>>),
      L(<<w_ls, <<"|">>, w_cat, <<"|">>, w_ls>>),
      \* ls "a|cat" (a `|` inside double quotes)
      l_ls_quoted_pipe }

EditLines ==
    { L(<<w_edit>>), L(<<w_edit, w_ls>>), L(<<w_edit, w_cd, DirB>>),
      L(<<w_set, w_EDITOR, w_nx>>) }

\* A session draws its lines from one menu: the lines of one kind, with a few
\* lines of the other kinds among them.
MenuCd == CdLines \cup {l_ls, l_exit}
MenuEnv == SetLines \cup PathLines \cup VarLines \cup {l_cd_a, l_ls, l_exit}
MenuAlias == AliasLines \cup {l_ls, l_ll_h, L(<<w_ll>>), L(<<w_cat>>), L(<<w_ll, <<"|">>, w_cat>>),
                              l_cd_a, l_set_X_v, l_exit}
\* builtins on a line that contains '|': cd /a | cat, set X v | cat,
\* alias ll=ls | cat
l_cd_a_pipe == L(<<w_cd, DirA, <<"|">>, w_cat>>)
BuiltinPipeLines ==
    { l_cd_a_pipe, L(<<w_set, w_X, <<"v">>, <<"|">>, w_cat>>),
      L(<<w_alias, <<"l","l","=","l","s">>, <<"|">>, w_cat>>) }

MenuRun == RunLines \cup BuiltinPipeLines \cup
           {l_alias_ll, l_cd_a, l_set_X_v, l_exit, l_blank, <<>>}
MenuEdit == EditLines \cup {l_ls, l_cd_a, l_alias_ll, l_exit}

Menus == {MenuCd, MenuEnv, MenuAlias, MenuRun, MenuEdit}

-----------------------------------------------------------------------------
(* Reading and dispatching one line *)

\* the history variables after a line with effect e
log_cd(e) == IF e.cd = <<>> THEN cdlog
             ELSE IF Len(cdlog) < MaxCdLog THEN cdlog \o e.cd
             ELSE Tail(cdlog) \o e.cd
\* NAME and VALUE of `set NAME VALUE` and of `set NAME=VALUE`
SetName(args) == IF Len(args) = 2 THEN args[1] ELSE split(args[1], "=")[1]
SetValue(args) == IF Len(args) = 2 THEN args[2]
                  ELSE From(args[1], Len(SetName(args)) + 2)

log_set(e) == IF e.set = <<>> \/ e.panic THEN lastSet
              ELSE insert(lastSet, SetName(e.set[1]), SetValue(e.set[1]))
log_path(e) == IF e.set # <<>> /\ ~e.panic /\ SetName(e.set[1]) = w_PATH THEN FALSE
               ELSE pathTouched \/ e.path

\* the state after a line with effect e, whose words are toks, when the loop
\* goes on in mode nextMode
ApplyWith(e, line, allowPipes, toks, nextMode) ==
    /\ input' = line
    /\ words' = toks
    /\ allow_pipes' = allowPipes
    /\ nlines' = nlines + 1
    /\ menu' = menu
    /\ edit_run' = e.edit
    /\ token_out' = token_out
    /\ cwd' = e.cwd
    /\ previous_dir' = e.previous_dir
    /\ env' = e.env
    /\ aliases' = e.aliases
    /\ report' = e.report
    /\ cdlog' = log_cd(e)
    /\ lastSet' = log_set(e)
    /\ pathTouched' = log_path(e)
    /\ spawnFailed' = spawnFailed
    /\ mode' = nextMode
    /\ commands' = e.launch
    /\ piped' = e.piped
    /\ idx' = 1
    /\ children' = <<>>
    /\ previous_stdout' = None
    /\ pc' = IF e.launch # <<>> /\ ~e.panic THEN "spawn" ELSE "idle"

\* the state after a line with effect e, read in mode m
Apply(e, line, allowPipes) ==
    ApplyWith(e, line, allowPipes, parse_arguments(line),
              IF e.panic THEN "panicked"
              ELSE IF e.stop THEN (IF mode = "file" THEN "interactive" ELSE "exited")
              ELSE mode)

\* (mutant) `exit` skips to the next line of the file instead of leaving it
file_line_exit_continues(line) ==
    LET inp == trim(line)
        parts == parse_arguments(inp)
    IN  IF inp = <<>> \/ parts = <<>> THEN NoEffect
        ELSE LET command == parts[1]
                 args == Tail(parts)
             IN  IF command = w_exit THEN NoEffect
                 ELSE IF command = w_alias THEN alias_builtin(args)
                 ELSE IF command = w_path THEN path_builtin(args)
                 ELSE execute_single_command(command, args, FALSE, inp)

(* execute_file_commands: one line of the startup file *)
file_line(line) ==
    LET inp == trim(line)
        parts == parse_arguments(inp)
    IN  IF inp = <<>> \/ parts = <<>> THEN NoEffect
        ELSE LET command == parts[1]
                 args == Tail(parts)
             IN  IF command = w_exit THEN [NoEffect EXCEPT !.stop = TRUE]
                 ELSE IF command = w_alias THEN alias_builtin(args)
                 ELSE IF command = w_path THEN path_builtin(args)
                 ELSE execute_single_command(command, args, FALSE, inp)

(* handle_builtin_command: Some(effect), or None for "not a builtin" *)
handle_builtin_command(command, args, hist, run) ==
    IF command = w_exit THEN Some([NoEffect EXCEPT !.stop = TRUE])
    ELSE IF command = w_alias THEN Some(alias_builtin(args))
    ELSE IF command = w_path THEN Some(path_builtin(args))
    ELSE IF command = w_edit THEN Some(edit_builtin(args, hist, run))
    ELSE None

\* rustyline's add_history_entry: an empty line and a repetition of the last
\* entry are not added (the last two entries are kept here)
add_history_entry(hist, line) ==
    IF line = <<>> \/ (hist # <<>> /\ hist[Len(hist)] = line) THEN hist
    ELSE IF Len(hist) < 2 THEN Append(hist, line)
    ELSE <<hist[2], line>>

\* an Err(_) of a builtin is reported by the loop, which goes on
builtin_result(e) == IF e.err THEN Says(e, "builtin_error") ELSE e

(* the interactive loop's dispatch of one line: builtins first, then         *)
(* execute_single_command with pipe splitting allowed                        *)
interactive_line(line, run) ==
    LET inp == trim(line)
        parts == parse_arguments(inp)
    IN  IF inp = <<>> \/ parts = <<>> THEN NoEffect
        ELSE LET command == parts[1]
                 args == Tail(parts)
                 builtin == handle_builtin_command(command, args,
                                add_history_entry(rl_history, line), run)
             IN  IF builtin # None THEN builtin_result(builtin[1])
                 ELSE execute_single_command(command, args, TRUE, inp)

\* what the file system and the editor may do when a line is `edit`
NoRun == [outcome |-> "none", edited |-> None]
EditedTexts ==
    { <<>>, L(<<w_ls, <<"|">>, w_cat>>), L(<<w_alias, <<"l","l","=","l","s">>>>) }
EditRuns ==
    [outcome : {"write_error", "exited_failure", "read_error", "exited_success"},
     edited : {None}] \cup
    [outcome : {"exited_success"}, edited : {Some(t) : t \in EditedTexts}]
RunsOf(line) ==
    IF starts_with(trim(line), w_edit) THEN EditRuns ELSE {NoRun}

FileLine(line) ==
    /\ mode = "file" /\ pc = "idle" /\ nlines < MaxLines
    /\ Apply(file_line(line), trim(line), FALSE)
    /\ rl_history' = rl_history

\* the startup file has no more lines
FileEnd ==
    /\ mode = "file" /\ pc = "idle"
    /\ mode' = "interactive"
    /\ UNCHANGED <<session, job, history, pc, input, words, allow_pipes, report, nlines,
                   menu, rl_history, edit_run, spawnFailed>>

InteractiveLine(line) ==
    /\ mode = "interactive" /\ pc = "idle" /\ nlines < MaxLines
    /\ \E run \in RunsOf(line) : Apply(interactive_line(line, run), trim(line), TRUE)
    /\ rl_history' = add_history_entry(rl_history, line)

-----------------------------------------------------------------------------
(* execute_command and the stage loop of execute_piped_commands *)

\* Command::spawn succeeds exactly for the programs that exist
spawn_ok(cmd_parts) == cmd_parts[1] \in Programs

\* the stdout of the stage at loop index i
stage_stdout(i) == IF ~piped \/ i = Len(commands) THEN "inherit" ELSE "piped"

\* the child spawned for the stage at loop index i
spawn_child(i) ==
    [seg |-> i,
     argv |-> commands[i],
     stdin |-> previous_stdout,
     stdout |-> stage_stdout(i),
     stderr |-> "inherit",
     waits |-> 0]

\* where the loop goes after the stage at index i, with children cs
after_stage(i, cs) ==
    IF i < Len(commands) THEN "spawn" ELSE IF cs = <<>> THEN "idle" ELSE "wait"

\* `continue` on an empty command vector
SkipEmpty ==
    /\ pc = "spawn" /\ commands[idx] = <<>>
    /\ idx' = idx + 1
    /\ pc' = after_stage(idx, children)
    /\ UNCHANGED <<session, history, mode, input, words, allow_pipes, commands, piped,
                   children, previous_stdout, report, nlines, menu, rl_history, edit_run,
                   spawnFailed>>

Spawn ==
    /\ pc = "spawn" /\ commands[idx] # <<>> /\ spawn_ok(commands[idx])
    /\ children' = Append(children, spawn_child(idx))
    /\ previous_stdout' = IF stage_stdout(idx) = "piped"
                          THEN Some(Len(children) + 1) ELSE None
    /\ idx' = idx + 1
    /\ pc' = after_stage(idx, children')
    /\ UNCHANGED <<session, history, mode, input, words, allow_pipes, commands, piped,
                   report, nlines, menu, rl_history, edit_run,
                   spawnFailed>>

\* (mutant) `continue` instead of `return`: the loop goes on to the next stage
on_spawn_error_continue(i, cs) ==
    [pc |-> IF i < Len(commands) THEN "spawn" ELSE IF cs = <<>> THEN "idle" ELSE "wait",
     idx |-> i + 1]

\* where the executor goes when the spawn of the stage at index i has failed
\* with children cs: `return`
on_spawn_error(i, cs) == [pc |-> "idle", idx |-> i]

\* a failed spawn reports and returns; the children are dropped as they are
SpawnFail ==
    /\ pc = "spawn" /\ commands[idx] # <<>> /\ ~spawn_ok(commands[idx])
    /\ report' = Append(report, "spawn_error")
    /\ pc' = on_spawn_error(idx, children).pc
    /\ idx' = on_spawn_error(idx, children).idx
    /\ spawnFailed' = TRUE
    /\ UNCHANGED <<session, history, mode, input, words, allow_pipes, commands, piped,
                   children, previous_stdout, nlines, menu, rl_history, edit_run>>

\* (mutant) the children are waited for from the last one spawned
next_wait_last == CHOOSE k \in 1..Len(children) :
                      children[k].waits = 0 /\ \A j \in (k+1)..Len(children) : children[j].waits > 0

\* the next child the wait loop waits for
next_wait == CHOOSE k \in 1..Len(children) :
                 children[k].waits = 0 /\ \A j \in 1..(k-1) : children[j].waits > 0

WaitStatus == {"success", "failure", "wait_error"}

Wait(status) ==
    /\ pc = "wait"
    /\ children' = [children EXCEPT ![next_wait].waits = @ + 1]
    /\ report' = IF status = "failure" THEN Append(report, "exit_warning")
                 ELSE IF status = "wait_error" THEN Append(report, "wait_error")
                 ELSE report
    /\ pc' = IF next_wait = Len(children) THEN "idle" ELSE "wait"
    /\ UNCHANGED <<session, history, mode, input, words, allow_pipes, commands, piped,
                   idx, previous_stdout, nlines, menu, rl_history, edit_run,
                   spawnFailed>>

-----------------------------------------------------------------------------

Init ==
    /\ cwd \in {HOME, DirA}
    /\ previous_dir = None
    /\ env = (w_PATH :> <<"/","p">>)
    /\ aliases = <<>>
    /\ mode = "file"
    /\ pc = "idle"
    /\ input = <<>>
    /\ words = <<>>
    /\ allow_pipes = FALSE
    /\ commands = <<>>
    /\ piped = FALSE
    /\ idx = 1
    /\ children = <<>>
    /\ previous_stdout = None
    /\ report = <<>>
    /\ nlines = 0
    /\ menu \in Menus
    /\ rl_history = <<>>
    /\ edit_run = None
    /\ token_out = None
    /\ cdlog = <<>>
    /\ lastSet = <<>>
    /\ pathTouched = FALSE
    /\ spawnFailed = FALSE

Next ==
    \/ \E line \in menu : FileLine(line)
    \/ FileEnd
    \/ \E line \in menu : InteractiveLine(line)
    \/ SkipEmpty
    \/ Spawn
    \/ SpawnFail
    \/ \E status \in WaitStatus : Wait(status)

Spec == Init /\ [][Next]_vars

-----------------------------------------------------------------------------
(* src/src/main.rs: the shell as run_shell runs it. main.rs declares no      *)
(* module: it has its own tokenizer (double quotes only, no variable         *)
(* expansion), its own startup-file loop and its own line handler, whose     *)
(* builtins are exit, alias, edit and cd. Its expand_tilde, execute_command  *)
(* and execute_piped_commands are the same code as in parser.rs and          *)
(* commands.rs, and the definitions above stand for them.                    *)

RECURSIVE main_parse_scan(_, _, _, _, _)
main_parse_scan(s, i, args, current_arg, in_quotes) ==
    IF i > Len(s)
    THEN IF current_arg # <<>> THEN Append(args, expand_tilde(current_arg)) ELSE args
    ELSE LET c == s[i] IN
      IF c = DQ /\ ~in_quotes THEN main_parse_scan(s, i + 1, args, current_arg, TRUE)
      ELSE IF c = DQ /\ in_quotes
        THEN main_parse_scan(s, i + 1, args, current_arg, FALSE)
      ELSE IF IsSpace(c) /\ ~in_quotes
        THEN main_parse_scan(s, skip_spaces(s, i + 1),
                 IF current_arg # <<>>
                 THEN Append(args, expand_tilde(current_arg)) ELSE args,
                 <<>>, in_quotes)
      ELSE main_parse_scan(s, i + 1, args, Append(current_arg, c), in_quotes)

main_parse_arguments(s) == main_parse_scan(s, 1, <<>>, <<>>, FALSE)

\* handle_line and execute_file_commands, "cd" arm: no `-`, no PREVIOUS_DIR
main_cd(args) ==
    LET target_dir == IF args = <<>> THEN home_dir ELSE args[1]
    IN  IF ~is_dir(cwd, target_dir) THEN Says(NoEffect, "cd_error")
        ELSE [NoEffect EXCEPT !.cwd = Resolve(cwd, target_dir)]

\* one command vector per '|'-separated piece of the line
main_pipe_commands(full_input) ==
    LET pipe_parts == split(full_input, "|")
        parsed(k) == main_parse_arguments(trim(pipe_parts[k]))
    IN  [k \in 1..Len(pipe_parts) |->
            IF parsed(k) # <<>> /\ parsed(k)[1] \in DOMAIN aliases
            THEN main_parse_arguments(aliases[parsed(k)[1]]) \o Tail(parsed(k))
            ELSE parsed(k)]

\* handle_line and execute_file_commands, default arm; the startup file has
\* no pipe branch
main_default_arm(command, args, pipes, full_input) ==
    LET expanded_command ==
            IF command \in DOMAIN aliases THEN aliases[command] ELSE command
    IN  IF pipes /\ contains(full_input, "|")
        THEN execute_piped_commands(main_pipe_commands(full_input))
        ELSE IF expanded_command # command THEN
            LET final_args == main_parse_arguments(expanded_command) \o args IN
            IF final_args = <<>> THEN [NoEffect EXCEPT !.panic = TRUE]
            ELSE [NoEffect EXCEPT !.launch = <<final_args>>]
        ELSE [NoEffect EXCEPT !.launch = <<<<command>> \o args>>]

\* handle_line, "edit" arm: the edited text is handed to execute_command
main_edit(args, hist, run) ==
    LET last_command == IF args = <<>> THEN history_nth1(hist) ELSE Some(join(args))
    IN  IF last_command = None THEN Says(NoEffect, "edit_info")
        ELSE LET cmd == last_command[1]
                 logged == [outcome |-> run.outcome, text |-> edited_text(cmd, run)]
                 edited_parts == main_parse_arguments(trim(edited_text(cmd, run)))
             IN  IF run.outcome = "write_error" THEN Fails(NoEffect)
                 ELSE IF ~(editor_name \in Programs) THEN Fails(NoEffect)
                 ELSE IF run.outcome = "exited_failure"
                    THEN [Says(NoEffect, "edit_warning") EXCEPT !.edit = Some(logged)]
                 ELSE IF run.outcome = "read_error" THEN Fails(NoEffect)
                 ELSE IF edited_parts # <<>>
                    THEN [NoEffect EXCEPT !.launch = <<edited_parts>>,
                                          !.edit = Some(logged)]
                 ELSE [NoEffect EXCEPT !.edit = Some(logged)]

\* (mutant) a line without tokens is skipped
handle_line_checks_empty(line, run) ==
    LET input_ == trim(line)
        parts == main_parse_arguments(input_)
    IN  IF input_ = <<>> \/ parts = <<>> THEN NoEffect
        ELSE LET command == parts[1]
                 args == Tail(parts)
             IN  IF command = w_exit THEN [NoEffect EXCEPT !.stop = TRUE]
                 ELSE IF command = w_alias THEN alias_builtin(args)
                 ELSE IF command = w_edit
                    THEN main_edit(args, add_history_entry(rl_history, line), run)
                 ELSE IF command = w_cd THEN main_cd(args)
                 ELSE main_default_arm(command, args, TRUE, input_)

\* handle_line on Ok(line); parts[0] panics when the line has no token
handle_line(line, run) ==
    LET input_ == trim(line)
        parts == main_parse_arguments(input_)
    IN  IF input_ = <<>> THEN NoEffect
        ELSE IF parts = <<>> THEN [NoEffect EXCEPT !.panic = TRUE]
        ELSE LET command == parts[1]
                 args == Tail(parts)
             IN  IF command = w_exit THEN [NoEffect EXCEPT !.stop = TRUE]
                 ELSE IF command = w_alias THEN alias_builtin(args)
                 ELSE IF command = w_edit
                    THEN main_edit(args, add_history_entry(rl_history, line), run)
                 ELSE IF command = w_cd THEN main_cd(args)
                 ELSE main_default_arm(command, args, TRUE, input_)

\* execute_file_commands of main.rs: one line of the startup file
main_file_line(line) ==
    LET input_ == trim(line)
        parts == main_parse_arguments(input_)
    IN  IF input_ = <<>> \/ parts = <<>> THEN NoEffect
        ELSE LET command == parts[1]
                 args == Tail(parts)
             IN  IF command = w_exit THEN [NoEffect EXCEPT !.stop = TRUE]
                 ELSE IF command = w_alias THEN alias_builtin(args)
                 ELSE IF command = w_cd THEN main_cd(args)
                 ELSE main_default_arm(command, args, FALSE, input_)

\* run_shell: where the loop is after a line with effect e. An Err(_) leaves
\* run_shell through `?`, a panic ends the process, Ok(false) ends the loop.
run_shell_after(e) ==
    IF e.panic THEN "panicked"
    ELSE IF e.err THEN "failed"
    ELSE IF e.stop THEN (IF mode = "file" THEN "interactive" ELSE "exited")
    ELSE mode

MainApply(e, line) ==
    ApplyWith(e, line, mode = "interactive", main_parse_arguments(line),
              run_shell_after(e))

l_quotes == <<DQ, DQ>>
l_ls_exit == L(<<w_ls, <<";">>, w_exit>>)
l_exit_ls == L(<<w_exit, <<";">>, w_ls>>)

MainLoopLines ==
    { <<>>, l_blank, l_quotes, l_ls, L(<<w_nx>>), l_exit, l_ls_exit, l_exit_ls,
      l_cd_a, L(<<w_cd, Missing>>), L(<<w_ls, <<"|">>, w_cat>>), L(<<w_ls, <<"|">>>>),
      L(<<w_alias, w_ll>>) }
MainEditLines ==
    { L(<<w_edit>>), L(<<w_edit, w_ls>>), l_ls, l_alias_ll, l_ll_h, l_exit }
MainMenus == {MainLoopLines, MainEditLines}

MainFileLine(line) ==
    /\ mode = "file" /\ pc = "idle" /\ nlines < MaxLines
    /\ MainApply(main_file_line(line), trim(line))
    /\ rl_history' = rl_history

\* readline returned Ok(line)
HandleLine(line) ==
    /\ mode = "interactive" /\ pc = "idle" /\ nlines < MaxLines
    /\ \E run \in RunsOf(line) : MainApply(handle_line(line, run), trim(line))
    /\ rl_history' = add_history_entry(rl_history, line)

\* what readline returned instead of a line: Interrupted keeps the loop going,
\* Eof and any other error end it with Ok(false)
ReadFrame ==
    /\ input' = <<>> /\ words' = <<>>
    /\ UNCHANGED <<session, job, history, pc, allow_pipes, nlines, menu,
                   rl_history, edit_run, spawnFailed>>

ReadInterrupted ==
    /\ mode = "interactive" /\ pc = "idle" /\ input # <<>>
    /\ mode' = mode /\ report' = <<>>
    /\ ReadFrame

ReadEof ==
    /\ mode = "interactive" /\ pc = "idle"
    /\ mode' = "eof" /\ report' = <<>>
    /\ ReadFrame

ReadError ==
    /\ mode = "interactive" /\ pc = "idle"
    /\ mode' = "read_error" /\ report' = <<"read_error">>
    /\ ReadFrame

MainInit ==
    /\ cwd = HOME
    /\ previous_dir = None
    /\ env \in {(w_PATH :> <<"/","p">>),
                (w_PATH :> <<"/","p">>) @@ (w_EDITOR :> w_nx)}
    /\ aliases = <<>>
    /\ mode = "file"
    /\ pc = "idle"
    /\ input = <<>>
    /\ words = <<>>
    /\ allow_pipes = FALSE
    /\ commands = <<>>
    /\ piped = FALSE
    /\ idx = 1
    /\ children = <<>>
    /\ previous_stdout = None
    /\ report = <<>>
    /\ nlines = 0
    /\ menu \in MainMenus
    /\ rl_history = <<>>
    /\ edit_run = None
    /\ token_out = None
    /\ cdlog = <<>>
    /\ lastSet = <<>>
    /\ pathTouched = FALSE
    /\ spawnFailed = FALSE

MainNext ==
    \/ \E line \in menu : MainFileLine(line)
    \/ FileEnd
    \/ \E line \in menu : HandleLine(line)
    \/ ReadInterrupted
    \/ ReadEof
    \/ ReadError
    \/ SkipEmpty
    \/ Spawn
    \/ SpawnFail
    \/ \E status \in WaitStatus : Wait(status)

MainSpec == MainInit /\ [][MainNext]_vars

-----------------------------------------------------------------------------
(* The tokenizer and the expansions on their own: a text and an environment  *)
(* are drawn, and parse_arguments, expand_variables and expand_tilde are     *)
(* applied to the text.                                                      *)

w_X1 == <<"X","1">>

QuoteAlphabet == {"a", "b", SP, TAB, DQ, SQ}
VarAlphabet == {"$", "{", "}", "X", "1", "_"}
TildeAlphabet == {"~", "/", "a", "$", "X"}
SplitAlphabet == {"$", "X", "Y", "a", SP, DQ}
QuotedAlphabet == {"$", "X", "~", "/", DQ, SQ}

\* every text of at most MaxTextLen characters of alphabet A
Texts(A) == UNION {[1..n -> A] : n \in 0..MaxTextLen}

EnvNone == <<>>
EnvVars == (w_X :> <<"v">>) @@ (w_X1 :> <<"u">>) @@ (<<"_">> :> <<"w","$","X">>)
EnvTilde == (w_X :> <<"~">>)
EnvSlash == (w_X :> <<"/","a">>)
\* a value that holds a blank and a '$'
EnvSplit == (w_X :> <<"a"," ","$","X">>)
EnvPlain == (w_X :> <<"v">>)

ParseInit ==
    /\ \/ input \in Texts(QuoteAlphabet) /\ env = EnvNone
       \/ input \in Texts(VarAlphabet) /\ env \in {EnvNone, EnvVars}
       \/ input \in Texts(TildeAlphabet) /\ env \in {EnvTilde, EnvSlash}
       \/ input \in Texts(SplitAlphabet) /\ env = EnvSplit
       \/ input \in Texts(QuotedAlphabet) /\ env = EnvPlain
    /\ mode = "tokenizer"
    /\ pc = "idle"
    /\ cwd = HOME
    /\ previous_dir = None
    /\ aliases = <<>>
    /\ words = <<>>
    /\ allow_pipes = FALSE
    /\ commands = <<>>
    /\ piped = FALSE
    /\ idx = 1
    /\ children = <<>>
    /\ previous_stdout = None
    /\ report = <<>>
    /\ nlines = 0
    /\ menu = {}
    /\ rl_history = <<>>
    /\ edit_run = None
    /\ token_out = None
    /\ cdlog = <<>>
    /\ lastSet = <<>>
    /\ pathTouched = FALSE
    /\ spawnFailed = FALSE

ParseFrame ==
    UNCHANGED <<session, job, mode, input, allow_pipes, report, nlines, menu,
                rl_history, edit_run, cdlog, lastSet, pathTouched, spawnFailed>>

Tokenize ==
    /\ mode = "tokenizer" /\ pc = "idle"
    /\ words' = parse_arguments(input)
    /\ pc' = "tokenized"
    /\ token_out' = token_out
    /\ ParseFrame

ExpandVariables ==
    /\ mode = "tokenizer" /\ pc = "idle"
    /\ token_out' = Some(expand_variables(input))
    /\ pc' = "variables"
    /\ words' = words
    /\ ParseFrame

ExpandTilde ==
    /\ mode = "tokenizer" /\ pc = "idle"
    /\ token_out' = Some(expand_tilde(input))
    /\ pc' = "tilde"
    /\ words' = words
    /\ ParseFrame

ParseNext == Tokenize \/ ExpandVariables \/ ExpandTilde

ParseSpec == ParseInit /\ [][ParseNext]_vars

-----------------------------------------------------------------------------
(* Properties of cd *)

\* the tokens of a text; whether the command of a token sequence is `name`
Tokens(text) == parse_arguments(text)
Names(toks, name) == toks # <<>> /\ toks[1] = name
IsMinus(args) == args # <<>> /\ args[1] = w_dash

\* this step reads and executes one line
LineStep == nlines' = nlines + 1

Has(msgs, m) == \E k \in 1..Len(msgs) : msgs[k] = m

\* C1: `cd B` followed by `cd -` is back in A, the directory `cd B` left, and a
\* further `cd -` is in B again: every `cd -` that follows a successful cd
\* succeeds and goes to the directory that cd left, so repeated `cd -`
\* alternates between the last two directories only.
C1_CdMinusToggles ==
    /\ cdlog # <<>> => cwd = cdlog[Len(cdlog)].to
    /\ \A k \in 1..(Len(cdlog) - 1) :
         LET a == cdlog[k]
             b == cdlog[k + 1]
         IN  (a.ok /\ IsMinus(b.arg)) =>
               /\ b.ok /\ b.from = a.to /\ b.to = a.from
               /\ (k + 2 <= Len(cdlog) /\ IsMinus(cdlog[k + 2].arg)) =>
                     (cdlog[k + 2].ok /\ cdlog[k + 2].to = a.to)

\* A -> B by a literal path, then `cd -` (in A), then `cd -` (in B again)
C1_Witness ==
    /\ Len(cdlog) = 3
    /\ cdlog[1].ok /\ ~IsMinus(cdlog[1].arg) /\ cdlog[1].arg # <<>>
    /\ cdlog[1].from # cdlog[1].to
    /\ IsMinus(cdlog[2].arg) /\ cdlog[2].to = cdlog[1].from
    /\ IsMinus(cdlog[3].arg) /\ cwd = cdlog[1].to

\* this step executes a cd line that prints no error
CdSucceeds == LineStep /\ Names(words', w_cd) /\ ~Has(report', "cd_error")

\* C2: after every successful cd, previous_directory is the working directory
\* the process had immediately before that cd.
C2_PreviousIsVacated == [][CdSucceeds => previous_dir' = Some(cwd)]_vars

\* a successful `cd -` has recorded the directory it left
C2_Witness ==
    /\ pc = "idle" /\ Names(words, w_cd) /\ IsMinus(Tail(words))
    /\ ~Has(report, "cd_error")
    /\ Len(cdlog) >= 2 /\ cdlog[Len(cdlog)].from # cdlog[Len(cdlog)].to
    /\ previous_dir = Some(cdlog[Len(cdlog)].from)

\* the cd of this line has no directory to go to
CdHasNoTarget(args) ==
    \/ IsMinus(args) /\ previous_dir = None
    \/ cd_target(args) # None /\ ~is_dir(cwd, cd_target(args)[1])

\* C3: a cd whose target does not exist or is not a directory, and a `cd -`
\* with no previous directory recorded, report an error and leave the working
\* directory and previous_directory unchanged.
C3_FailedCdChangesNothing ==
    [][(LineStep /\ Names(words', w_cd) /\ CdHasNoTarget(Tail(words')))
         => (Has(report', "cd_error") /\ cwd' = cwd /\ previous_dir' = previous_dir)]_vars

\* a cd to a regular file has failed after an earlier cd had succeeded
C3_Witness ==
    /\ Names(words, w_cd) /\ Has(report, "cd_error")
    /\ previous_dir # None
    /\ Len(cdlog) >= 2 /\ ~cdlog[Len(cdlog)].ok
    /\ cdlog[Len(cdlog)].arg = <<FileF>>

\* `cd -` with nothing recorded has failed
C3_WitnessNoPrevious ==
    /\ Names(words, w_cd) /\ IsMinus(Tail(words)) /\ Has(report, "cd_error")
    /\ previous_dir = None

-----------------------------------------------------------------------------
(* Properties of the executor *)

\* the executor has returned from the command vectors it was handed
Returned == pc = "idle" /\ commands # <<>>

NonEmptySegments == {k \in 1..Len(commands) : commands[k] # <<>>}

\* C4 (as claimed): when the executor returns, every process it spawned has
\* been waited for exactly once.
C4_AllSpawnedAwaited ==
    Returned => \A k \in 1..Len(children) : children[k].waits = 1

\* C4, the part that holds: when no spawn fails, one process is spawned per
\* non-empty segment, in order, and each is waited for exactly once.
C4_OnePerSegmentWhenAllSpawn ==
    (Returned /\ ~Has(report, "spawn_error")) =>
        /\ {children[k].seg : k \in 1..Len(children)} = NonEmptySegments
        /\ Len(children) = Cardinality(NonEmptySegments)
        /\ \A k \in 1..Len(children) : children[k].waits = 1

\* C5 (as claimed): in a multi-stage pipeline whose stages have all been
\* spawned, the first spawned stage inherits the parent's stdin, every later
\* one reads the stdout of the stage spawned just before it, every stage but
\* the last spawned has its stdout piped, the last spawned writes to the
\* parent's stdout, and stderr is always the parent's.
C5_PipelineWiring ==
    (piped /\ pc = "wait") =>
        /\ children[1].stdin = None
        /\ \A k \in 2..Len(children) : children[k].stdin = Some(k - 1)
        /\ \A k \in 1..(Len(children) - 1) : children[k].stdout = "piped"
        /\ children[Len(children)].stdout = "inherit"
        /\ \A k \in 1..Len(children) : children[k].stderr = "inherit"

\* the spawn loop was left before its last stage
LeftEarly == commands # <<>> /\ pc # "spawn" /\ idx <= Len(commands)

\* C6: the spawn loop is left early exactly when a spawn fails, and then an
\* error is reported, no stage after the failing one is spawned (the executor
\* has returned, and every child comes from an earlier segment), and the loop
\* goes on: the shell is back at the point where it reads the next line (idle,
\* in the file or the interactive loop), so a following valid command is
\* executed. Only programs that exist are ever spawned.
C6_SpawnErrorStopsStages ==
    /\ \A k \in 1..Len(children) : children[k].argv[1] \in Programs
    /\ Has(report, "spawn_error") <=> LeftEarly
    /\ LeftEarly =>
        /\ pc = "idle"
        /\ commands[idx] # <<>> /\ commands[idx][1] \notin Programs
        /\ \A k \in 1..Len(children) : children[k].seg < idx
        /\ mode \in {"file", "interactive"}

\* after a failed spawn, a later command has been spawned and waited for
C6_Witness ==
    /\ spawnFailed /\ ~Has(report, "spawn_error")
    /\ mode = "interactive" /\ pc = "idle"
    /\ children # <<>> /\ \A k \in 1..Len(children) : children[k].waits = 1

\* a spawn has failed in the middle of a pipeline, after a stage was spawned
C6_WitnessMidPipeline ==
    /\ Has(report, "spawn_error") /\ piped
    /\ children # <<>> /\ idx < Len(commands)

-----------------------------------------------------------------------------
(* Properties of aliases *)

\* the first token replaced by the words of its replacement text, once
ExpandOnce(toks) ==
    IF toks # <<>> /\ toks[1] \in DOMAIN aliases
    THEN Tokens(aliases[toks[1]]) \o Tail(toks)
    ELSE toks

\* the text handed to execute_single_command and its words: the line, or the
\* text `edit` read back from the editor
ExecText == IF edit_run = None THEN input ELSE trim(edit_run[1].text)
ExecWords == IF edit_run = None THEN words ELSE Tokens(ExecText)

\* the text is executed as a pipeline
TakesPipelinePath == allow_pipes /\ contains(ExecText, "|")

Pieces == split(ExecText, "|")

\* C7: the command vectors handed to the executor are the line's words (on the
\* pipeline path: each piece's words) with only the first token replaced by
\* the words of its alias text, the other arguments following unchanged; the
\* result is not looked up again.
C7_AliasExpandedOnce ==
    commands # <<>> =>
        IF TakesPipelinePath
        THEN /\ Len(commands) = Len(Pieces)
             /\ \A k \in 1..Len(Pieces) :
                    commands[k] = ExpandOnce(Tokens(trim(Pieces[k])))
        ELSE commands = <<ExpandOnce(ExecWords)>>

\* with ll defined as `ls -a` and ls itself an alias, `ll -h` is [ls, -a, -h]
C7_Witness ==
    /\ input = l_ll_h
    /\ w_ll \in DOMAIN aliases /\ aliases[w_ll] = <<"l","s"," ","-","a">>
    /\ w_ls \in DOMAIN aliases
    /\ commands = << <<w_ls, <<"-","a">>, <<"-","h">>>> >>

\* a pipeline whose two stages are both aliases
C7_WitnessPipeline ==
    /\ input = L(<<w_ll, <<"|">>, w_cat>>) /\ piped
    /\ w_ll \in DOMAIN aliases /\ w_cat \in DOMAIN aliases
    /\ aliases[w_ll] = w_cat
    /\ commands = << <<w_cat>>, <<w_nx>> >>

\* the words of `alias NAME=VALUE`: one argument containing '='
DefinesAlias(toks) ==
    Names(toks, w_alias) /\ Len(toks) = 2 /\ contains(toks[2], "=")

DefName(def) == split(def, "=")[1]
DefText(def) == From(def, Len(DefName(def)) + 2)

\* one layer of surrounding double quotes removed, if present
StripOneLayer(v) ==
    IF Len(v) >= 2 /\ v[1] = DQ /\ v[Len(v)] = DQ THEN SubSeq(v, 2, Len(v) - 1) ELSE v

\* C8 (as claimed): `alias NAME=VALUE` stores under NAME the text after the
\* first '=' with exactly one layer of surrounding double quotes removed.
C8_AliasStripsOneLayer ==
    DefinesAlias(words) =>
        LET def == words[2]
        IN  /\ DefName(def) \in DOMAIN aliases
            /\ aliases[DefName(def)] = StripOneLayer(DefText(def))

\* C9: the alias table changes only by `alias NAME=VALUE`, which adds or
\* overwrites the entry NAME and no other; every other step leaves the table
\* as it is, so no entry is ever removed; `alias` with any other argument
\* shape reports a usage error and the loop goes on.
C9_AliasTableFrame ==
    [][IF LineStep /\ DefinesAlias(words')
       THEN LET name == DefName(words'[2])
            IN  /\ DOMAIN aliases' = DOMAIN aliases \cup {name}
                /\ \A n \in DOMAIN aliases \ {name} : aliases'[n] = aliases[n]
       ELSE /\ aliases' = aliases
            /\ (LineStep /\ Names(words', w_alias) /\ Len(words') > 1) =>
                  (Has(report', "alias_usage") /\ mode' = mode)]_vars

\* `alias ll` (a usage error) on a table of two entries, both still there
C9_Witness ==
    /\ words = <<w_alias, w_ll>> /\ Has(report, "alias_usage")
    /\ {w_ll, w_ls} \subseteq DOMAIN aliases

-----------------------------------------------------------------------------
(* Properties of set *)

IsIdent(n) ==
    /\ n # <<>>
    /\ is_alphabetic(n[1]) \/ n[1] = "_"
    /\ \A i \in 1..Len(n) : is_alphanumeric(n[i]) \/ n[i] = "_"

\* tokenizing $NAME and ${NAME} both give the single token v
ExpandsTo(n, v) ==
    /\ Tokens(<<"$">> \o n) = <<v>>
    /\ Tokens(<<"$","{">> \o n \o <<"}">>) = <<v>>

\* a text that tilde expansion rewrites
TildeForm(v) == v = <<"~">> \/ starts_with(v, <<"~","/">>)

\* C10 (as claimed): after `set NAME VALUE` or `set NAME=VALUE`, tokenizing
\* $NAME or ${NAME} yields the single token VALUE, until a later set of NAME.
C10_SetThenExpand ==
    \A n \in DOMAIN lastSet : IsIdent(n) => ExpandsTo(n, lastSet[n])

\* C10 (amended): the same for every VALUE that is not `~` and does not start
\* with `~/`, until a later set of NAME or, for PATH, a later `path D` that
\* prepends to it.
C10_SetThenExpandUnlessTilde ==
    \A n \in DOMAIN lastSet :
        (IsIdent(n) /\ ~TildeForm(lastSet[n]) /\ ~(n = w_PATH /\ pathTouched))
            => ExpandsTo(n, lastSet[n])

\* after `set X=w` the line `$X` has been handed to the executor as [w]
C10_Witness ==
    /\ w_X \in DOMAIN lastSet /\ lastSet[w_X] = <<"w">>
    /\ input = <<"$","X">> /\ commands = << <<<<"w">>>> >>

-----------------------------------------------------------------------------
(* Properties of edit *)

\* the `edit` of this step has no previous command to edit
NoPrevious == Tail(words') = <<>> /\ Len(rl_history') < 2

\* the editor of this step's `edit` exited with a non-zero status
EditorFailed == edit_run' # None /\ edit_run'[1].outcome = "exited_failure"

\* C12: an `edit` with no previous command to edit prints the informational
\* message, and an `edit` whose editor exits with a non-zero status prints the
\* warning; either way nothing is handed to the executor, the session state is
\* unchanged and the loop goes on to the next line.
C12_EditExecutesNothing ==
    [][(LineStep /\ mode = "interactive" /\ Names(words', w_edit)
          /\ (NoPrevious \/ EditorFailed)) =>
         /\ report' = (IF NoPrevious THEN <<"edit_info">> ELSE <<"edit_warning">>)
         /\ commands' = <<>> /\ pc' = "idle"
         /\ session' = session
         /\ mode' = "interactive"]_vars

\* `edit ls`: the editor has exited with a non-zero status
C12_Witness ==
    /\ words = <<w_edit, w_ls>> /\ mode = "interactive"
    /\ edit_run # None /\ edit_run[1].outcome = "exited_failure"
    /\ report = <<"edit_warning">> /\ commands = <<>>

\* `edit` as the first line typed: there is nothing to edit
C12_WitnessNoPrevious ==
    /\ words = <<w_edit>> /\ mode = "interactive"
    /\ Len(rl_history) = 1 /\ report = <<"edit_info">>

\* `edit` after `cd /a` was typed: the editor left the text alone and exited
\* with success, and the cd was executed
C12_WitnessExecuted ==
    /\ words = <<w_edit>> /\ edit_run # None
    /\ edit_run[1] = [outcome |-> "exited_success", text |-> l_cd_a]
    /\ cdlog # <<>> /\ cwd = DirA

-----------------------------------------------------------------------------
(* The startup file and the typed lines *)

\* this step leaves the session state and hands the executor the commands of
\* effect i
StepIs(i) ==
    /\ cwd' = i.cwd /\ previous_dir' = i.previous_dir
    /\ env' = i.env /\ aliases' = i.aliases
    /\ commands' = i.launch /\ piped' = i.piped

IsEditLine(line) == starts_with(line, w_edit)

\* C16 (as claimed): a line other than `edit` read from the startup file
\* spawns the processes and leaves the session state that the same line
\* spawns and leaves when the user types it; a line containing '|' runs as a
\* pipeline in the startup file too.
C16_FileAsInteractive ==
    [][(LineStep /\ mode = "file" /\ ~IsEditLine(input')) =>
          StepIs(interactive_line(input', NoRun))]_vars

\* C16, the part that holds: the same for every line that contains no '|'
C16_FileAsInteractiveNoPipe ==
    [][(LineStep /\ mode = "file" /\ ~IsEditLine(input') /\ ~contains(input', "|")) =>
          StepIs(interactive_line(input', NoRun))]_vars

-----------------------------------------------------------------------------
(* Properties of path *)

PathError(msgs) == Has(msgs, "path_missing") \/ Has(msgs, "path_notdir")

\* the value of PATH in environment e ("" when unset)
PathOf(e) == IF w_PATH \in DOMAIN e THEN e[w_PATH] ELSE <<>>

\* every variable other than PATH is as it was
OthersKept(e1, e2) ==
    /\ DOMAIN e2 \ {w_PATH} = DOMAIN e1 \ {w_PATH}
    /\ \A n \in DOMAIN e1 \ {w_PATH} : e2[n] = e1[n]

\* C11 (as claimed): `path D` with D, after tilde expansion, an existing
\* directory makes PATH that directory followed by ':' and the old PATH (the
\* directory alone when the old PATH was empty); otherwise an error is reported
\* and PATH is unchanged; no other variable changes in either case.
C11_PathPrepends ==
    [][(LineStep /\ Names(words', w_path) /\ Len(words') = 2) =>
         LET D == expand_tilde(words'[2])
         IN  /\ OthersKept(env, env')
             /\ IF is_dir(cwd, D)
                THEN PathOf(env') = (IF PathOf(env) = <<>> THEN D
                                     ELSE D \o <<":">> \o PathOf(env))
                ELSE PathError(report') /\ env' = env]_vars

\* C11, the part that holds: the same for every D that does not start with '~'
C11_PathPrependsPlain ==
    [][(LineStep /\ Names(words', w_path) /\ Len(words') = 2
          /\ ~starts_with(words'[2], <<"~">>)) =>
         LET D == words'[2]
         IN  /\ OthersKept(env, env')
             /\ IF is_dir(cwd, D)
                THEN PathOf(env') = (IF PathOf(env) = <<>> THEN D
                                     ELSE D \o <<":">> \o PathOf(env))
                ELSE PathError(report') /\ env' = env]_vars

\* C20 (as claimed): `cd ARG` with one argument other than `-` goes to the
\* tilde-expanded ARG when ARG starts with '~' and to the literal ARG
\* otherwise, no character of ARG being dropped: when that path is a
\* directory it becomes the working directory, and when it is not the cd
\* fails.
C20_CdTargetsWholeArgument ==
    [][(LineStep /\ Names(words', w_cd) /\ Len(words') = 2
          /\ ~IsMinus(Tail(words'))) =>
         LET ARG == words'[2]
             target == IF starts_with(ARG, <<"~">>) THEN expand_tilde(ARG) ELSE ARG
         IN  IF is_dir(cwd, target)
             THEN cwd' = Resolve(cwd, target) /\ ~Has(report', "cd_error")
             ELSE cwd' = cwd /\ Has(report', "cd_error")]_vars

\* C20, the part that holds: the same for every ARG that does not start with '~'
C20_CdTargetsLiteral ==
    [][(LineStep /\ Names(words', w_cd) /\ Len(words') = 2
          /\ ~IsMinus(Tail(words')) /\ ~starts_with(words'[2], <<"~">>)) =>
         LET target == words'[2]
         IN  IF is_dir(cwd, target)
             THEN cwd' = Resolve(cwd, target) /\ ~Has(report', "cd_error")
             ELSE cwd' = cwd /\ Has(report', "cd_error")]_vars

-----------------------------------------------------------------------------
(* Properties of the tokenizer *)

IsQuote(c) == c = DQ \/ c = SQ

\* the quote character that is open after the first i characters of s ("" when
\* none is): a quote opens a region, and only the same character closes it
RECURSIVE OpenAfter(_, _)
OpenAfter(s, i) ==
    IF i = 0 THEN ""
    ELSE LET open == OpenAfter(s, i - 1)
         IN  IF open = "" THEN (IF IsQuote(s[i]) THEN s[i] ELSE "")
             ELSE IF s[i] = open THEN "" ELSE open

\* position i of s is a quote that opens or closes a region
IsDelimiter(s, i) ==
    LET open == OpenAfter(s, i - 1)
    IN  IF open = "" THEN IsQuote(s[i]) ELSE s[i] = open

\* position i of s is whitespace outside every quoted region
IsSeparator(s, i) == OpenAfter(s, i - 1) = "" /\ IsSpace(s[i])

\* the tokens the quoting rules give: the characters that are neither
\* delimiters nor separators, grouped between separators; an empty group is
\* no token
RECURSIVE QuotedGroups(_, _, _, _)
QuotedGroups(s, i, groups, group) ==
    LET closed == IF group = <<>> THEN groups ELSE Append(groups, group)
    IN  IF i > Len(s) THEN closed
        ELSE IF IsSeparator(s, i) THEN QuotedGroups(s, i + 1, closed, <<>>)
        ELSE IF IsDelimiter(s, i) THEN QuotedGroups(s, i + 1, groups, group)
        ELSE QuotedGroups(s, i + 1, groups, Append(group, s[i]))

PlainText(s) == \A i \in 1..Len(s) : s[i] \notin {"$", "~"}

\* C17: for a text without dollar and tilde, the tokens are the groups of
\* characters between unquoted whitespace, where the double and the single
\* quote both open a region closed only by the same character, the other quote
\* and whitespace inside a region are literal, the delimiting quotes are
\* dropped, quoted and unquoted text that touch form one token, and an
\* unterminated quote is accepted.
C17_QuotingRules ==
    (pc = "tokenized" /\ PlainText(input)) => words = QuotedGroups(input, 1, <<>>, <<>>)

\* an unterminated double quote holding a single quote and a blank
C17_Witness ==
    /\ pc = "tokenized" /\ input = <<DQ, SQ, SP, "a">>
    /\ words = << <<SQ, SP, "a">> >>

\* a quoted a touching an unquoted b is the one token ab
C17_WitnessTouching ==
    /\ pc = "tokenized" /\ input = <<DQ, "a", DQ, "b">> /\ words = << <<"a", "b">> >>

\* a double quote inside single quotes is literal
C17_WitnessOtherQuote ==
    /\ pc = "tokenized" /\ input = <<SQ, DQ, "a", SQ>> /\ words = << <<DQ, "a">> >>

-----------------------------------------------------------------------------
(* Properties of variable expansion *)

IsNameStart(c) == is_alphabetic(c) \/ c = "_"
IsNameChar(c) == is_alphanumeric(c) \/ c = "_"

\* the value of variable n, or the empty text when it is unset
ValueOf(n) == IF n \in DOMAIN env THEN env[n] ELSE <<>>

\* the longest prefix of u made of name characters
NamePrefix(u) ==
    LET k == CHOOSE k \in 0..Len(u) :
                 /\ \A j \in 1..k : IsNameChar(u[j])
                 /\ k < Len(u) => ~IsNameChar(u[k + 1])
    IN  SubSeq(u, 1, k)

\* the text before the first '}' of u
BeforeBrace(u) == SubSeq(u, 1, find(u, "}") - 1)

\* variable expansion as stated, read from the left: ${NAME} up to the first
\* '}', $NAME with the longest NAME, an unterminated ${ and the rest of the
\* token literally, any other '$' literally, every other character as it is
RECURSIVE Expanded(_)
Expanded(t) ==
    IF t = <<>> THEN <<>>
    ELSE IF t[1] # "$" THEN <<t[1]>> \o Expanded(Tail(t))
    ELSE IF starts_with(t, <<"$", "{">>) THEN
        IF contains(From(t, 3), "}")
        THEN LET NAME == BeforeBrace(From(t, 3))
             IN  ValueOf(NAME) \o Expanded(From(t, Len(NAME) + 4))
        ELSE t
    ELSE IF Len(t) >= 2 /\ IsNameStart(t[2])
        THEN LET NAME == NamePrefix(Tail(t))
             IN  ValueOf(NAME) \o Expanded(From(t, Len(NAME) + 2))
    ELSE <<"$">> \o Expanded(Tail(t))

\* C18: expand_variables replaces every $NAME and ${NAME} by the value of the
\* variable (nothing when it is unset), leaves an unterminated ${NAME and a '$'
\* followed by neither a letter, an underscore nor '{' as they are, and keeps
\* every other character in place.
C18_VariableExpansion ==
    pc = "variables" => token_out = Some(Expanded(input))

\* X1 is set: $X1 is its value, not the value of X followed by 1
C18_Witness ==
    /\ pc = "variables" /\ input = <<"$", "X", "1">>
    /\ env = EnvVars /\ token_out = Some(<<"u">>)

\* an unset variable in braces expands to nothing; an unterminated one stays
C18_WitnessUnset ==
    /\ pc = "variables" /\ input = <<"$", "{", "X", "}">>
    /\ env = EnvNone /\ token_out = Some(<<>>)

C18_WitnessUnterminated ==
    /\ pc = "variables" /\ input = <<"$", "{", "X">>
    /\ env = EnvVars /\ token_out = Some(<<"$", "{", "X">>)

\* a '$' before a digit and a '$' at the end are literal
C18_WitnessLoneDollar ==
    /\ pc = "variables" /\ input = <<"$", "1", "$">>
    /\ token_out = Some(<<"$", "1", "$">>)

-----------------------------------------------------------------------------
(* Properties of tilde expansion *)

\* PathBuf::join as the claim's "joined with": a separator, then the
\* remainder; a remainder that is itself absolute stands alone
JoinedWithHome(rest) ==
    IF rest # <<>> /\ rest[1] = "/" THEN rest ELSE HOME \o <<"/">> \o rest

\* tilde expansion as stated
TildeExpanded(t) ==
    IF t = <<"~">> THEN HOME
    ELSE IF Len(t) >= 2 /\ t[1] = "~" /\ t[2] = "/" THEN JoinedWithHome(From(t, 3))
    ELSE t

\* the text is one unquoted word
OneWord(s) == s # <<>> /\ \A i \in 1..Len(s) : ~IsSpace(s[i]) /\ ~IsQuote(s[i])

\* C19: expand_tilde turns `~` into the home directory and `~/rest` into the
\* home directory joined with rest, and returns every other token unchanged
\* (a `~` followed by anything else, a `~` that is not first); the tokenizer
\* applies it to each token after variable expansion.
C19_TildeExpansion ==
    /\ pc = "tilde" => token_out = Some(TildeExpanded(input))
    /\ (pc = "tokenized" /\ OneWord(input)) =>
          words = <<TildeExpanded(expand_variables(input))>>

\* X is `~`: the token $X is the home directory
C19_Witness ==
    /\ pc = "tokenized" /\ input = <<"$", "X">> /\ env = EnvTilde
    /\ words = <<HOME>>

\* `~/a` is the home directory joined with a; `a~/a` is unchanged
C19_WitnessJoined ==
    /\ pc = "tilde" /\ input = <<"~", "/", "a">>
    /\ token_out = Some(<<"/", "h", "/", "a">>)

C19_WitnessNotFirst ==
    /\ pc = "tilde" /\ input = <<"a", "~", "/", "a">> /\ token_out = Some(input)

\* `~a` is unchanged
C19_WitnessOtherUser ==
    /\ pc = "tokenized" /\ input = <<"~", "a">> /\ words = <<input>>


-----------------------------------------------------------------------------
(* Claims about the loop of main.rs, checked under MainSpec *)

LoopRunning == mode \in {"file", "interactive"}

\* C13: the interpreter loop ends only on an explicit `exit` line or when the
\* input ends (a failure of reading the input itself is counted as its end):
\* no usage error, spawn error, exit status or I/O error of `edit` takes the
\* shell out of the loop.
C13_LoopEndsOnlyOnExitOrEof ==
    [][ (mode' # mode) =>
           \/ mode = "file" /\ mode' = "interactive"
           \/ /\ mode = "interactive" /\ mode' = "exited"
              /\ words' # <<>> /\ words'[1] = w_exit
           \/ mode = "interactive" /\ mode' \in {"eof", "read_error"} ]_vars

\* the loop of main.rs does survive usage errors, spawn errors and exit
\* statuses: it is left only as the formula above allows, by a line without
\* token, or by `edit`
C13_LoopSurvivesCommands ==
    [][ (mode' # mode /\ mode' \in {"panicked", "failed"}) =>
            \/ words' = <<>>
            \/ words'[1] = w_edit ]_vars

HasSegments(line) == contains(line, ";") /\ ~contains(line, DQ)
SegmentWords(line, k) == main_parse_arguments(trim(split(line, ";")[k]))
HasExitSegment(line) ==
    \E k \in 1..Len(split(line, ";")) :
        SegmentWords(line, k) # <<>> /\ SegmentWords(line, k)[1] = w_exit

\* C14: a line is split on `;` into segments dispatched one by one, so no
\* command is launched with `;` among its words, and once an interactive line
\* with an `exit` segment has been handled the loop is over: the shell does not
\* wait for another line.
C14_SemicolonSegments ==
    HasSegments(input) =>
        /\ \A k \in DOMAIN commands : \A j \in DOMAIN commands[k] :
               commands[k][j] # <<";">>
        /\ (allow_pipes /\ HasExitSegment(input) /\ pc = "idle")
               => mode # "interactive"

\* an `exit` that is the first word of the line does end the loop of main.rs,
\* whatever follows it
C14_LeadingExitEndsLoop ==
    (allow_pipes /\ words # <<>> /\ words[1] = w_exit /\ input # <<>>)
        => mode = "exited"

\* C15: a line whose token sequence is empty is ignored in both modes: nothing
\* is launched, directory, environment and aliases are unchanged, and the loop
\* goes on to the next line.
C15_EmptyLineIgnored ==
    [][ (LineStep /\ words' = <<>>) =>
            /\ commands' = <<>> /\ pc' = "idle"
            /\ UNCHANGED session
            /\ mode' = mode ]_vars

\* the startup file of main.rs does ignore such lines
C15_EmptyLineIgnoredInFile ==
    [][ (LineStep /\ words' = <<>> /\ mode = "file") =>
            /\ commands' = <<>> /\ pc' = "idle"
            /\ UNCHANGED session
            /\ mode' = mode ]_vars


-----------------------------------------------------------------------------
(* Claims about the stage loop and the wait loop of execute_piped_commands *)

SpawnLoopDone == idx > Len(commands)
Waited(k) == children[k].waits > 0

\* C21: in a pipeline the stages are spawned left to right, each one taking
\* as its input the output of the stage spawned just before it; no stage is
\* waited for before the stage loop has gone through the last stage; the
\* stages are waited for in spawn order, each once; a non-zero exit status
\* only adds a warning: every stage is still waited for and the loop goes on.
C21_SpawnThenWaitInOrder ==
    piped =>
        /\ \A k \in DOMAIN children :
              /\ \A j \in 1..(k-1) : children[j].seg < children[k].seg
              /\ children[k].seg < idx
              /\ children[k].argv = commands[children[k].seg]
              /\ children[k].stdin # None => children[k].stdin = Some(k - 1)
              /\ Waited(k) =>
                    /\ SpawnLoopDone
                    /\ children[k].waits = 1
                    /\ \A j \in 1..(k-1) : Waited(j)
        /\ (pc = "wait") => SpawnLoopDone /\ \E k \in DOMAIN children : ~Waited(k)
        /\ (pc = "idle" /\ SpawnLoopDone) => \A k \in DOMAIN children : Waited(k)
        /\ mode = "interactive"

\* a two-stage pipeline whose first stage exited with a non-zero status and
\* whose second stage was waited for after it
C21_Witness ==
    /\ piped /\ pc = "idle" /\ SpawnLoopDone
    /\ Len(children) = 2 /\ Waited(1) /\ Waited(2)
    /\ children[2].stdin = Some(1)
    /\ report = <<"exit_warning", "wait_error">>
    /\ mode = "interactive"

\* the first stage of a three-stage pipeline has been waited for, the others
\* not yet
C21_WitnessWaiting ==
    /\ piped /\ pc = "wait" /\ Len(children) = 3
    /\ Waited(1) /\ ~Waited(2) /\ ~Waited(3)


ReadBy(k) == \E j \in DOMAIN children : children[j].stdin = Some(k)
HeldByParent(k) == previous_stdout = Some(k)

\* C22: when the wait phase of a pipeline is reached, every pipe a stage
\* writes to is read by a later spawned stage or has been closed by the
\* parent, so no stage can be stuck writing into a pipe nobody reads while the
\* parent waits for it.
C22_PipesReadOrClosed ==
    (piped /\ pc = "wait") =>
        \A k \in DOMAIN children :
            children[k].stdout = "piped" => (ReadBy(k) /\ ~HeldByParent(k))

\* when the last segment of the line is not empty, no pipe is left unread
C22_PipesReadWhenLastStageRuns ==
    (piped /\ pc = "wait" /\ commands[Len(commands)] # <<>>) =>
        /\ previous_stdout = None
        /\ \A k \in DOMAIN children : children[k].stdout = "piped" => ReadBy(k)


-----------------------------------------------------------------------------
(* Claims about what is handed to the process spawner *)

\* the names intercepted before any process is spawned
BuiltinNames == {w_exit, w_alias, w_path, w_edit, w_set, w_cd}

\* the text (the line, or what a successful `edit` read back) was executed on
\* the single-command path as a non-builtin command
RanAsCommand ==
    /\ edit_run # None => edit_run[1].outcome = "exited_success"
    /\ ExecWords # <<>> /\ ~(ExecWords[1] \in BuiltinNames) /\ ~TakesPipelinePath

\* C23: on the single-command path the vector handed to the spawner is never
\* empty: after alias expansion it has a first element, whatever replacement
\* text the alias table holds, and the shell goes on.
C23_SpawnVectorNeverEmpty ==
    RanAsCommand =>
        /\ mode # "panicked"
        /\ Len(commands) = 1 /\ commands[1] # <<>>

\* the vector has a first element whenever the replacement text has a token or
\* the line has an argument
C23_SpawnVectorOfTokens ==
    (RanAsCommand /\ ExpandOnce(ExecWords) # <<>>) =>
        /\ mode # "panicked"
        /\ Len(commands) = 1 /\ commands[1] # <<>>


\* the names the dispatch of a line intercepts: the startup-file loop has no
\* `edit` arm
Intercepted(m) == IF m = "file" THEN BuiltinNames \ {w_edit} ELSE BuiltinNames

\* C24: a command whose first token is not a builtin name leaves the working
\* directory, the previous directory, the environment and the alias table as
\* they were, also when the token is an alias whose replacement begins with a
\* builtin name: the expansion goes to the process spawner; and a line whose
\* first token is a builtin name runs the builtin even when the alias table
\* has an entry of that name.
C24_NonBuiltinKeepsSession ==
    [][ LineStep =>
          LET text == IF edit_run' = None THEN input' ELSE trim(edit_run'[1].text)
              toks == IF edit_run' = None THEN words' ELSE Tokens(text)
              ran == /\ edit_run' # None => edit_run'[1].outcome = "exited_success"
                     /\ ~(allow_pipes' /\ contains(text, "|"))
          IN  /\ (toks # <<>> /\ ~(toks[1] \in BuiltinNames)) =>
                    /\ UNCHANGED session
                    /\ (ran /\ mode' # "panicked") =>
                            Len(commands') = 1 /\ commands'[1] # <<>>
              /\ (edit_run' = None /\ words' # <<>> /\ words'[1] \in Intercepted(mode)
                    /\ words'[1] \in DOMAIN aliases) =>
                    commands' = <<>> ]_vars

\* `ll`, defined as `cd /b`, has been handed to the spawner as [cd, /b] and
\* the working directory is not /b
C24_Witness ==
    /\ input = w_ll /\ w_ll \in DOMAIN aliases
    /\ aliases[w_ll] = w_cd \o <<SP>> \o DirB
    /\ commands = << <<w_cd, DirB>> >>
    /\ cwd # DirB /\ previous_dir = None

\* with cd defined as an alias, `cd /a` has still changed the directory
C24_WitnessBuiltinName ==
    /\ w_cd \in DOMAIN aliases /\ input = l_cd_a
    /\ cwd = DirA /\ previous_dir # None /\ commands = <<>>


-----------------------------------------------------------------------------
(* Claims about pipes and builtins *)

\* the builtin names matched before the default arm is reached: all of them
\* for a typed line, those of execute_single_command for a text `edit` hands
\* to it
NamesOnPath == IF edit_run = None THEN BuiltinNames ELSE {w_set, w_alias, w_cd}

WasExecuted == edit_run # None => edit_run[1].outcome = "exited_success"

\* C25: the pipeline path is taken exactly when pipe splitting is allowed, the
\* first token is not a builtin name and the raw text contains a `|`, quoted
\* or not; the raw text is then cut at every `|` and each piece is tokenized
\* on its own.
C25_PipelinePathIffRawPipe ==
    /\ piped <=> /\ WasExecuted /\ allow_pipes
                 /\ ExecWords # <<>> /\ ~(ExecWords[1] \in NamesOnPath)
                 /\ contains(ExecText, "|")
    /\ piped =>
          /\ Len(commands) = Len(Pieces)
          /\ \A k \in 1..Len(Pieces) :
                 commands[k] = ExpandOnce(Tokens(trim(Pieces[k])))

\* ls "a|cat" has been cut inside the quoted string: [ls, a] and [cat]
C25_Witness ==
    /\ input = l_ls_quoted_pipe /\ piped
    /\ commands = << <<w_ls, <<"a">>>>, <<w_cat>> >>

\* the same line in the startup file, where pipe splitting is not allowed
C25_WitnessNotAllowed ==
    /\ input = l_ls_quoted_pipe /\ ~allow_pipes /\ ~piped
    /\ commands = << <<w_ls, <<"a","|">> \o w_cat>> >>


\* C26: when the first token of a line is cd, set or alias the builtin runs
\* and nothing is spawned, also when the line contains a `|`: the `|` and the
\* tokens after it are arguments of the builtin (cd goes to its first
\* argument; set and alias, given too many arguments, report their usage and
\* change nothing), and no pipe is set up.
C26_BuiltinWithPipeSpawnsNothing ==
    [][ (LineStep /\ words' # <<>> /\ words'[1] \in {w_cd, w_set, w_alias}
           /\ contains(input', "|")) =>
          /\ commands' = <<>> /\ ~piped' /\ pc' = "idle"
          /\ children' = <<>> /\ previous_stdout' = None
          /\ (words'[1] = w_cd /\ Len(words') > 1 /\ starts_with(words'[2], <<"/">>)
                /\ is_dir(cwd, words'[2])) =>
                (cwd' = Resolve(cwd, words'[2]) /\ previous_dir' = Some(cwd))
          /\ (words'[1] = w_set /\ Len(words') > 3) =>
                (Has(report', "set_usage") /\ env' = env)
          /\ (words'[1] = w_alias /\ Len(words') > 2) =>
                (Has(report', "alias_usage") /\ aliases' = aliases) ]_vars

\* `cd /a | cat` typed at the prompt has changed the directory and spawned
\* nothing
C26_Witness ==
    /\ input = l_cd_a_pipe /\ allow_pipes
    /\ cwd = DirA /\ previous_dir = Some(HOME)
    /\ commands = <<>> /\ ~piped /\ children = <<>>

\* `set X v | cat` typed at the prompt has reported the usage of set
C26_WitnessSet ==
    /\ Names(words, w_set) /\ contains(input, "|") /\ allow_pipes
    /\ Has(report, "set_usage") /\ commands = <<>>


-----------------------------------------------------------------------------
(* Claims about expansion inside the tokenizer, checked under ParseSpec *)

\* the raw texts of the tokens: the runs between unquoted whitespace, without
\* their delimiting quotes, that hold a character
RawTokens(s) == QuotedGroups(s, 1, <<>>, <<>>)

\* C27: expansion never changes the number of tokens: each run of raw text
\* between unquoted whitespace that holds a character other than its quotes
\* gives exactly one token, its expansion, also when the expansion is empty or
\* holds whitespace; an expanded value is not scanned again for `$`.
C27_OneTokenPerRawRun ==
    pc = "tokenized" =>
        /\ Len(words) = Len(RawTokens(input))
        /\ \A k \in 1..Len(words) :
               words[k] = TildeExpanded(Expanded(RawTokens(input)[k]))

\* X holds `a $X`: the token $X is that value, one token, not scanned again
C27_Witness ==
    /\ pc = "tokenized" /\ env = EnvSplit
    /\ input = <<"$","X">>
    /\ words = << <<"a"," ","$","X">> >>

\* Y is unset: `$Y a` is an empty token and the token a
C27_WitnessEmptyToken ==
    /\ pc = "tokenized" /\ env = EnvSplit
    /\ input = <<"$","Y",SP,"a">>
    /\ words = << <<>>, <<"a">> >>

\* the text is one region in quotes, closed, with a text inside that holds
\* neither a quote nor whitespace
Wrapped(s) ==
    /\ Len(s) >= 3 /\ IsQuote(s[1]) /\ s[Len(s)] = s[1]
    /\ \A i \in 2..(Len(s) - 1) : ~IsQuote(s[i]) /\ ~IsSpace(s[i])
Inner(s) == SubSeq(s, 2, Len(s) - 1)

\* C28: quoting does not suppress expansion: a text in double or in single
\* quotes gives the token the text gives without the quotes, with $NAME,
\* ${NAME} and a leading `~` or `~/` expanded.
C28_QuotedTextIsExpanded ==
    (pc = "tokenized" /\ Wrapped(input)) =>
        words = << TildeExpanded(Expanded(Inner(input))) >>

\* '$X' in single quotes is the value of X
C28_Witness ==
    /\ pc = "tokenized" /\ env = EnvPlain
    /\ input = <<SQ, "$", "X", SQ>>
    /\ words = << <<"v">> >>

\* "~" in double quotes is the home directory
C28_WitnessTilde ==
    /\ pc = "tokenized" /\ input = <<DQ, "~", DQ>>
    /\ words = <<HOME>>


-----------------------------------------------------------------------------
(* The startup file and the interactive loop *)

\* C29: an `exit` line in the startup file ends the reading of that file
\* only: nothing is spawned, the directory, the environment and the alias
\* table built so far are kept, the interactive loop starts, and no further
\* line of the file is read.
C29_ExitInFileStartsLoop ==
    [][ /\ (LineStep /\ mode = "file" /\ Names(words', w_exit)) =>
              /\ mode' = "interactive"
              /\ UNCHANGED session
              /\ commands' = <<>> /\ pc' = "idle" /\ report' = <<>>
        /\ (mode # "file") => (mode' # "file") ]_vars

\* the file defined ll and X and then said exit: the shell is at the prompt
\* with both
C29_Witness ==
    /\ input = l_exit /\ ~allow_pipes /\ mode = "interactive" /\ pc = "idle"
    /\ w_ll \in DOMAIN aliases /\ w_X \in DOMAIN env

====
